---- MODULE Spec2Model ----
(***************************************************************************)
(* State-machine model of the URL shortener service (src/app.py).          *)
(*                                                                         *)
(* The Store is the SQLite table `urls`; every request handler runs in its *)
(* own worker, so a handler is split at its database round-trips: every    *)
(* execute(), every fetchone()/fetchall(), the commit and the response are *)
(* separate steps that other requests may interleave with.                 *)
(*                                                                         *)
(* SQLite (rollback journal) locks the database file:                      *)
(*   - a SELECT that has produced a row holds a read lock from execute()   *)
(*     until fetchone()/fetchall() has drained it; a SELECT without rows   *)
(*     holds nothing;                                                      *)
(*   - the INSERT opens the one write transaction (the sqlite3 module      *)
(*     issues BEGIN); until the commit its row is invisible to the other   *)
(*     connections and their INSERTs wait;                                 *)
(*   - the commit waits for the read locks of the other connections.       *)
(* A wait ends in "database is locked" after the 5 s busy timeout.  A      *)
(* handler that leaves through its except clause skips conn.close(): the   *)
(* connection of a rejected INSERT keeps the write lock, the connection of *)
(* a timed-out commit keeps its pending lock, which shuts out readers as   *)
(* well, until the garbage collector finalises the connection and rolls    *)
(* its transaction back.                                                   *)
(*                                                                         *)
(* Python strings are TLA+ strings; Len, \o and SubSeq act on them the way *)
(* len, + and slicing do.                                                  *)
(***************************************************************************)
EXTENDS Integers, Sequences, FiniteSets, TLC

VARIABLES
    urls,        \* the table urls, rows in id order
    now,         \* the wall clock, in seconds
    pc,          \* per worker: position in its request handler
    long_url,    \* per worker: shorten_url's long_url
    short_code,  \* per worker: shorten_url's short_code
    attempt,     \* per worker: shorten_url's loop variable
    generated,   \* per worker: candidates generated by the running request
    checked,     \* per worker: candidates looked up by the running request
    result,      \* per worker: the rows its last SELECT produced
    resp,        \* the response sent by the last step (NoResp if none)
    issued,      \* the bodies of the 201 responses sent so far
    lock,        \* the write lock of the database file: "free", "txn" (held
                 \* by the worker at its commit), "leaked" (held by the
                 \* unclosed connection of a rejected INSERT) or "blocked"
                 \* (pending lock of the unclosed connection of a timed-out
                 \* commit)
    pending      \* the uncommitted rows of the open write transaction

vars == <<urls, now, pc, long_url, short_code, attempt, generated, checked,
          result, resp, issued, lock, pending>>

(***************************************************************************)
(* Bounds of the exploration.                                              *)
(***************************************************************************)
\* seconds the wall clock may advance (CURRENT_TIMESTAMP has 1 s resolution)
MaxTime == 2
\* records after which a fresh file accepts no further request (Spec), or
\* requests for UrlA only (SpecSeq)
MaxRecords == 1

\* concurrent request workers
Procs == {1, 2}

(***************************************************************************)
(* Program constants.                                                      *)
(***************************************************************************)
\* generate_short_code(url, length=6)
length == 6
\* max_attempts = 5
max_attempts == 5
\* ... ORDER BY created_at DESC LIMIT 10
LIMIT == 10

(***************************************************************************)
(* Python string helpers.                                                  *)
(***************************************************************************)
\* str.startswith(prefix)
startswith(s, prefix) ==
    /\ Len(s) >= Len(prefix)
    /\ SubSeq(s, 1, Len(prefix)) = prefix

\* str(attempt) for a one-digit attempt number
str(n) == SubSeq("0123456789", n + 1, n + 1)

\* hashlib.md5(url.encode()).hexdigest(), tabulated on the hash inputs the
\* explored requests produce (values computed with hashlib)
hexdigest(s) ==
    CASE s = "http://a"   -> "82795f11d2315ac2703b14c5f8020886"
      [] s = "http://a0"  -> "115ec98b3ee3b5dd6f45c5d56750864c"
      [] s = "http://a1"  -> "660e2e629470265bd34787b107f32041"
      [] s = "http://a2"  -> "c54579c85a1a728cb701c9c69dac2293"
      [] s = "http://a3"  -> "49738ff6b18725799ee22c978ca84c00"
      [] s = "http://a4"  -> "f4f238b1a3618f49e1714ae409573126"
      [] s = "http://a00" -> "8346bee3689eac0775284736086036eb"
      [] s = "http://a01" -> "f605fd1ec3daa10fafc6229cf330f5e6"
      [] s = "http://a02" -> "a8ebbe2778a129cc9fe2e07d1bd6d1af"
      [] s = "http://a03" -> "d994576d2b0dc8be133a6f93b3aae6ac"
      [] s = "http://a04" -> "4e5ee293379b430a249654b4a085b5fb"
      [] s = "https://b"  -> "3f07eada872c4108ecb12a1f7999ddc8"
      [] s = "https://b0" -> "445885bb1c452e7c0c86cd6d86fcfd0d"
      [] s = "https://b1" -> "82fd075e9dd50370844dee39e5bb7906"
      [] s = "https://b2" -> "b7aac6a56ccd4bccb90e39237f8889c4"
      [] s = "https://b3" -> "cd58840992a6485e38ac4b1a84644e7f"
      [] s = "https://b4" -> "54608ce90454a19df005c034c5549c1e"

\* outcomes of random.choices(string.ascii_letters + string.digits, k=3)
RandomChars == {"aZ3", "Qx9"}

\* the random characters put in front of the digest instead of behind it
generate_random_first(url, random_chars) ==
    SubSeq(random_chars \o hexdigest(url), 1, length)

\* generate_short_code(url, length=6): md5 hex digest followed by the random
\* characters, truncated to `length`
generate_short_code(url, random_chars) ==
    LET hash_hex == hexdigest(url)
        combined == hash_hex \o random_chars
    IN  SubSeq(combined, 1, length)

(***************************************************************************)
(* The Store: table urls(id, short_code UNIQUE, long_url, created_at).     *)
(***************************************************************************)
\* SELECT id FROM urls WHERE short_code = ?  -- fetchone() is not None
exists(store, code) ==
    \E i \in 1..Len(store) : store[i].short_code = code

\* a table declared without UNIQUE on short_code accepts every INSERT
NoUniqueConstraint(store, code) == FALSE

\* the UNIQUE constraint on short_code rejects the INSERT
UniqueViolation(store, code) == exists(store, code)

\* the row of INSERT INTO urls (short_code, long_url) VALUES (?, ?); id is
\* the next AUTOINCREMENT value and created_at defaults to CURRENT_TIMESTAMP
insert(store, code, url, t) ==
    [id |-> Len(store) + 1, short_code |-> code,
     long_url |-> url, created_at |-> t]

\* a lookup whose WHERE clause is lost: the first row of the table
lookup_first_row(store, code) == store[1].long_url

\* SELECT long_url FROM urls WHERE short_code = ?  -- fetchone()
lookup(store, code) ==
    LET i == CHOOSE j \in 1..Len(store) : store[j].short_code = code
    IN  store[i].long_url

\* SELECT COUNT(DISTINCT long_url) FROM urls
count_distinct_urls(store) ==
    Cardinality({store[i].long_url : i \in 1..Len(store)})

\* SELECT COUNT(*) FROM urls
count(store) == Len(store)

\* Row i sorts before row j under ORDER BY created_at DESC.  SQL leaves the
\* order of rows with equal created_at open; tie is the order the engine
\* happens to produce for them ("asc": by rowid, what a stable sort over the
\* table scan gives; "desc": the reverse).
Before(store, tie, i, j) ==
    \/ store[i].created_at > store[j].created_at
    \/ /\ store[i].created_at = store[j].created_at
       /\ IF tie = "asc" THEN i < j ELSE i > j

TieOrders == {"asc", "desc"}

\* SELECT short_code, long_url, created_at FROM urls
\*   ORDER BY created_at DESC LIMIT 10
recent(store, tie) ==
    LET n == Len(store)
        rank(i) == Cardinality({j \in 1..n : Before(store, tie, j, i)})
        m == IF n < LIMIT THEN n ELSE LIMIT
    IN  [r \in 1..m |-> store[CHOOSE i \in 1..n : rank(i) = r - 1]]

(***************************************************************************)
(* Request inputs.                                                         *)
(***************************************************************************)
UrlA == "http://a"
\* UrlB is UrlA followed by "0": its first hash input is the hash input of
\* UrlA's first retry, so the two URLs compete for the code "115ec9"
UrlB == "http://a0"
UrlC == "https://b"

\* request.get_json(): None, or a dict of JSON values
NoJson == [kind |-> "none"]
Dict(items) == [kind |-> "dict", items |-> items]
JStr(s) == [str |-> s]
JInt(n) == [int |-> n]

\* `not data`
Falsy(data) == data.kind = "none" \/ DOMAIN data.items = {}

Body(url) == Dict([url |-> JStr(url)])

ValidBodies == {Body(UrlA), Body(UrlB)}

InvalidBodies ==
    { NoJson,
      Dict(<<>>),
      Dict([link |-> JStr(UrlA)]),
      Body("ftp://a"),
      Body("http:/"),
      Dict([url |-> JInt(123)]) }

Bodies == ValidBodies \cup InvalidBodies

\* the bodies and codes of the concurrent exploration
ConcurrentBodies == ValidBodies \cup {NoJson, Body("ftp://a")}
ConcurrentCodes == {"115ec9", "zzzzzz"}

\* short codes asked for by GET /<short_code>
Codes == {"82795f", "115ec9", "zzzzzz"}

POST(data) == [method |-> "POST", path |-> "/shorten", data |-> data]
GET(path) == [method |-> "GET", path |-> path, data |-> NoJson]

NoResp == [status |-> 0]

(***************************************************************************)
(* Initial state: init_db() on a fresh database file, no request running.  *)
(***************************************************************************)
Idle ==
    /\ pc = [p \in Procs |-> "idle"]
    /\ long_url = [p \in Procs |-> ""]
    /\ short_code = [p \in Procs |-> ""]
    /\ attempt = [p \in Procs |-> 0]
    /\ generated = [p \in Procs |-> <<>>]
    /\ checked = [p \in Procs |-> <<>>]
    /\ result = [p \in Procs |-> <<>>]
    /\ resp = NoResp
    /\ issued = <<>>
    /\ lock = "free"
    /\ pending = <<>>

Init ==
    /\ urls = <<>>
    /\ now = 0
    /\ Idle

\* the handler of worker p returns response r to request q
Return(p, q, r) ==
    /\ pc' = [pc EXCEPT ![p] = "idle"]
    /\ long_url' = [long_url EXCEPT ![p] = ""]
    /\ short_code' = [short_code EXCEPT ![p] = ""]
    /\ attempt' = [attempt EXCEPT ![p] = 0]
    /\ generated' = [generated EXCEPT ![p] = <<>>]
    /\ checked' = [checked EXCEPT ![p] = <<>>]
    /\ result' = [result EXCEPT ![p] = <<>>]
    /\ resp' = [request |-> q, status |-> r.status, body |-> r.body]

(***************************************************************************)
(* POST /shorten                                                           *)
(***************************************************************************)
\* the response of the validation part of shorten_url, or NoResp when the
\* body passes validation
Validate(data) ==
    IF Falsy(data) \/ "url" \notin DOMAIN data.items
    THEN [status |-> 400, body |-> [error |-> "URL is required"]]
    ELSE IF "str" \notin DOMAIN data.items.url
    THEN \* long_url.startswith raises AttributeError, which the handler's
         \* except clause turns into a 500
         [status |-> 500,
          body |-> [error |->
              "'int' object has no attribute 'startswith'"]]
    ELSE IF ~(\/ startswith(data.items.url.str, "http://")
              \/ startswith(data.items.url.str, "https://"))
    THEN [status |-> 400,
          body |-> [error |-> "URL must start with http:// or https://"]]
    ELSE NoResp

\* validation fails: the handler returns before it opens the database
shorten_reject(p, data) ==
    /\ pc[p] = "idle"
    /\ Validate(data) # NoResp
    /\ Return(p, POST(data), Validate(data))
    /\ UNCHANGED <<urls, now, issued, lock, pending>>

\* validation passes: the first candidate is generated, the connection opened
shorten_begin(p, data) ==
    /\ pc[p] = "idle"
    /\ Validate(data) = NoResp
    /\ \E random_chars \in RandomChars :
         LET c == generate_short_code(data.items.url.str, random_chars)
         IN  /\ short_code' = [short_code EXCEPT ![p] = c]
             /\ generated' = [generated EXCEPT ![p] = <<c>>]
    /\ long_url' = [long_url EXCEPT ![p] = data.items.url.str]
    /\ attempt' = [attempt EXCEPT ![p] = 0]
    /\ checked' = [checked EXCEPT ![p] = <<>>]
    /\ pc' = [pc EXCEPT ![p] = "check"]
    /\ resp' = NoResp
    /\ UNCHANGED <<urls, now, result, issued, lock, pending>>

\* the response of a handler whose statement waited for a lock until the
\* busy timeout ran out: OperationalError, turned into a 500 by the except
\* clause
Locked == [status |-> 500, body |-> [error |-> "database is locked"]]

\* worker p is between the execute() of a SELECT that produced a row and the
\* fetchone()/fetchall() that drains it: its connection holds a read lock
Reading(p) ==
    pc[p] \in {"fetch", "redirect_fetch", "stats_fetch", "list_fetch"}

\* the SELECT of one iteration of `for attempt in range(max_attempts)`.
\* Without a row, fetchone() is None and the loop breaks; with a row the
\* statement stays open until the fetchone(); shut out by a pending lock,
\* the request ends in a 500.
shorten_check(p) ==
    /\ pc[p] = "check"
    /\ IF lock = "blocked"
       THEN Return(p, POST(Body(long_url[p])), Locked)
       ELSE /\ checked' = [checked EXCEPT ![p] = Append(@, short_code[p])]
            /\ pc' = [pc EXCEPT ![p] =
                        IF exists(urls, short_code[p])
                        THEN "fetch" ELSE "insert"]
            /\ resp' = NoResp
            /\ UNCHANGED <<long_url, short_code, attempt, generated, result>>
    /\ UNCHANGED <<urls, now, issued, lock, pending>>

\* fetchone() returns the row the SELECT found, short_code is regenerated
\* and the loop goes on, or ends after max_attempts iterations
shorten_regenerate(p) ==
    /\ pc[p] = "fetch"
    /\ \E random_chars \in RandomChars :
         LET c == generate_short_code(
                      long_url[p] \o str(attempt[p]), random_chars)
         IN  /\ short_code' = [short_code EXCEPT ![p] = c]
             /\ generated' = [generated EXCEPT ![p] = Append(@, c)]
    /\ IF attempt[p] + 1 < max_attempts
       THEN /\ attempt' = [attempt EXCEPT ![p] = @ + 1]
            /\ pc' = [pc EXCEPT ![p] = "check"]
       ELSE /\ pc' = [pc EXCEPT ![p] = "exhausted"]
            /\ UNCHANGED attempt
    /\ resp' = NoResp
    /\ UNCHANGED <<urls, now, long_url, checked, result, issued, lock,
                   pending>>

\* a loop without its else branch: the candidate generated last is inserted
\* unchecked
shorten_exhausted_inserts(p) ==
    /\ pc[p] = "exhausted"
    /\ urls' = Append(urls, insert(urls, short_code[p], long_url[p], now))
    /\ Return(p, POST(Body(long_url[p])),
           [status |-> 201,
            body |-> [short_code |-> short_code[p],
                      short_url |-> "http://localhost:5000/" \o short_code[p],
                      long_url |-> long_url[p]]])
    /\ issued' = Append(issued, [short_code |-> short_code[p],
                                 long_url |-> long_url[p]])
    /\ UNCHANGED <<now, lock, pending>>

\* the else branch of the loop: no checked candidate was free
shorten_exhausted(p) ==
    /\ pc[p] = "exhausted"
    /\ Return(p, POST(Body(long_url[p])),
              [status |-> 500,
               body |-> [error |-> "Failed to generate unique short code"]])
    /\ UNCHANGED <<urls, now, issued, lock, pending>>

\* the INSERT with the write lock free: it opens the write transaction, or
\* raises IntegrityError, which the handler's except clause turns into a 500
\* without closing the connection
shorten_insert(p) ==
    /\ pc[p] = "insert"
    /\ lock = "free"
    /\ IF UniqueViolation(urls, short_code[p])
       THEN /\ Return(p, POST(Body(long_url[p])),
                  [status |-> 500,
                   body |-> [error |->
                       "UNIQUE constraint failed: urls.short_code"]])
            /\ lock' = "leaked"
            /\ UNCHANGED pending
       ELSE /\ pending' =
                 <<insert(urls, short_code[p], long_url[p], now)>>
            /\ lock' = "txn"
            /\ pc' = [pc EXCEPT ![p] = "commit"]
            /\ resp' = NoResp
            /\ UNCHANGED <<long_url, short_code, attempt, generated,
                           checked, result>>
    /\ UNCHANGED <<urls, now, issued>>

\* the INSERT with the write lock held by another connection: the busy
\* timeout runs out and the OperationalError becomes a 500
shorten_locked(p) ==
    /\ pc[p] = "insert"
    /\ lock # "free"
    /\ Return(p, POST(Body(long_url[p])), Locked)
    /\ UNCHANGED <<urls, now, issued, lock, pending>>

\* conn.commit() with no other connection reading: the row becomes visible,
\* the write lock is released
shorten_commit(p) ==
    /\ pc[p] = "commit"
    /\ \A q \in Procs \ {p} : ~Reading(q)
    /\ urls' = urls \o pending
    /\ pending' = <<>>
    /\ lock' = "free"
    /\ pc' = [pc EXCEPT ![p] = "respond"]
    /\ resp' = NoResp
    /\ UNCHANGED <<now, long_url, short_code, attempt, generated, checked,
                   result, issued>>

\* conn.commit() while another connection holds its read lock for the whole
\* busy timeout: OperationalError, a 500 through the except clause; the
\* connection stays open with its pending lock and its uncommitted row
shorten_commit_locked(p) ==
    /\ pc[p] = "commit"
    /\ \E q \in Procs \ {p} : Reading(q)
    /\ Return(p, POST(Body(long_url[p])), Locked)
    /\ lock' = "blocked"
    /\ UNCHANGED <<urls, now, issued, pending>>

\* conn.close() and the 201 response
shorten_respond(p) ==
    /\ pc[p] = "respond"
    /\ Return(p, POST(Body(long_url[p])),
           [status |-> 201,
            body |-> [short_code |-> short_code[p],
                      short_url |-> "http://localhost:5000/" \o short_code[p],
                      long_url |-> long_url[p]]])
    /\ issued' = Append(issued, [short_code |-> short_code[p],
                                 long_url |-> long_url[p]])
    /\ UNCHANGED <<urls, now, lock, pending>>

\* the garbage collector finalises the connection a failed request left
\* open: its transaction is rolled back, the uncommitted row is gone and
\* the lock released
finalize_connection ==
    /\ lock \in {"leaked", "blocked"}
    /\ lock' = "free"
    /\ pending' = <<>>
    /\ resp' = NoResp
    /\ UNCHANGED <<urls, now, pc, long_url, short_code, attempt, generated,
                   checked, result, issued>>

(***************************************************************************)
(* GET /<short_code>, GET /stats, GET /list, GET /health                   *)
(***************************************************************************)
\* a SELECT of a GET handler has produced `rows`: worker p goes on to its
\* fetch if the statement is still open, to its response otherwise
Execute(p, handler, rows) ==
    /\ result' = [result EXCEPT ![p] = rows]
    /\ pc' = [pc EXCEPT ![p] =
                IF rows # <<>> THEN handler \o "_fetch"
                               ELSE handler \o "_respond"]
    /\ resp' = NoResp

\* fetchone()/fetchall() and conn.close(): the read lock is released
Fetch(p, handler) ==
    /\ pc[p] = handler \o "_fetch"
    /\ pc' = [pc EXCEPT ![p] = handler \o "_respond"]
    /\ resp' = NoResp
    /\ UNCHANGED <<urls, now, long_url, short_code, attempt, generated,
                   checked, result, issued, lock, pending>>

\* redirect_url(short_code): the connection and the SELECT
redirect_url(p, code) ==
    /\ pc[p] = "idle"
    /\ IF lock = "blocked"
       THEN Return(p, GET("/" \o code), Locked)
       ELSE /\ Execute(p, "redirect",
                   IF exists(urls, code)
                   THEN <<[long_url |-> lookup(urls, code)]>> ELSE <<>>)
            /\ short_code' = [short_code EXCEPT ![p] = code]
            /\ UNCHANGED <<long_url, attempt, generated, checked>>
    /\ UNCHANGED <<urls, now, issued, lock, pending>>

redirect_fetch(p) == Fetch(p, "redirect")

\* `if result:` and the 302 or 404 response
redirect_respond(p) ==
    /\ pc[p] = "redirect_respond"
    /\ IF result[p] # <<>>
       THEN Return(p, GET("/" \o short_code[p]),
                [status |-> 302,
                 body |-> [location |-> result[p][1].long_url]])
       ELSE Return(p, GET("/" \o short_code[p]),
                [status |-> 404,
                 body |-> [error |-> "Short URL not found"]])
    /\ UNCHANGED <<urls, now, issued, lock, pending>>

\* get_stats(): the connection and the SELECT COUNT(*)
get_stats(p) ==
    /\ pc[p] = "idle"
    /\ IF lock = "blocked"
       THEN Return(p, GET("/stats"), Locked)
       ELSE /\ Execute(p, "stats", <<[total |-> count(urls)]>>)
            /\ UNCHANGED <<long_url, short_code, attempt, generated,
                           checked>>
    /\ UNCHANGED <<urls, now, issued, lock, pending>>

stats_fetch(p) == Fetch(p, "stats")

\* the 200 response with the total fetched
stats_respond(p) ==
    /\ pc[p] = "stats_respond"
    /\ Return(p, GET("/stats"),
           [status |-> 200,
            body |-> [total_shortened_urls |-> result[p][1].total,
                      service |-> "URL Shortener", version |-> "1.0.0"]])
    /\ UNCHANGED <<urls, now, issued, lock, pending>>

\* list_urls(): the connection and the SELECT ... ORDER BY ... LIMIT 10
list_urls(p) ==
    /\ pc[p] = "idle"
    /\ IF lock = "blocked"
       THEN Return(p, GET("/list"), Locked)
       ELSE /\ \E tie \in TieOrders :
                 Execute(p, "list", recent(urls, tie))
            /\ UNCHANGED <<long_url, short_code, attempt, generated,
                           checked>>
    /\ UNCHANGED <<urls, now, issued, lock, pending>>

list_fetch(p) == Fetch(p, "list")

\* the 200 response built from the rows fetched
list_respond(p) ==
    /\ pc[p] = "list_respond"
    /\ LET results == result[p]
           row(r) == [short_code |-> r.short_code,
                      long_url |-> r.long_url,
                      created_at |-> r.created_at,
                      short_url |->
                          "http://localhost:5000/" \o r.short_code]
           recent_urls == [i \in 1..Len(results) |-> row(results[i])]
       IN  Return(p, GET("/list"),
               [status |-> 200,
                body |-> [recent_urls |-> recent_urls,
                          total_count |-> Len(recent_urls)]])
    /\ UNCHANGED <<urls, now, issued, lock, pending>>

health_check(p) ==
    /\ pc[p] = "idle"
    /\ Return(p, GET("/health"),
           [status |-> 200,
            body |-> [status |-> "healthy", timestamp |-> now]])
    /\ UNCHANGED <<urls, now, issued, lock, pending>>

\* the wall clock read by CURRENT_TIMESTAMP advances by a second
Tick ==
    /\ now < MaxTime
    /\ now' = now + 1
    /\ resp' = NoResp
    /\ UNCHANGED <<urls, pc, long_url, short_code, attempt, generated,
                   checked, result, issued, lock, pending>>

(***************************************************************************)
(* Specifications.                                                         *)
(***************************************************************************)
\* a database file that an earlier run of the service left behind (init_db
\* keeps an existing table): UrlA shortened five times, then UrlC four
\* times, all within second 0
PriorRows ==
    << <<"82795f", UrlA>>, <<"115ec9", UrlA>>, <<"660e2e", UrlA>>,
       <<"c54579", UrlA>>, <<"49738f", UrlA>>, <<"3f07ea", UrlC>>,
       <<"445885", UrlC>>, <<"82fd07", UrlC>>, <<"b7aac6", UrlC>> >>

PriorStore ==
    [i \in 1..Len(PriorRows) |->
        [id |-> i, short_code |-> PriorRows[i][1],
         long_url |-> PriorRows[i][2], created_at |-> 0]]

\* the file after the first four of these requests: UrlA has one candidate
\* left
PriorUrlA == SubSeq(PriorStore, 1, 4)

\* the service starts on a fresh database file or on PriorUrlA
InitConcurrent ==
    /\ urls \in {<<>>, PriorUrlA}
    /\ now = 0
    /\ Idle

\* Spec: concurrent workers shortening UrlA and UrlB and reading the Store,
\* any interleaving of their database round-trips, every wait for a lock
\* either outlasted or timed out, while the clock advances.  On the fresh
\* file requests are accepted until MaxRecords records are stored; on
\* PriorUrlA, UrlA is shortened until its candidates are used up.
Next ==
    \/ \E p \in Procs, data \in ConcurrentBodies : shorten_reject(p, data)
    \/ \E p \in Procs, data \in ConcurrentBodies :
           /\ \/ Len(urls) < MaxRecords
              \/ data = Body(UrlA) /\ Len(urls) >= Len(PriorUrlA)
           /\ shorten_begin(p, data)
    \/ \E p \in Procs : shorten_check(p)
    \/ \E p \in Procs : shorten_regenerate(p)
    \/ \E p \in Procs : shorten_exhausted(p)
    \/ \E p \in Procs : shorten_insert(p)
    \/ \E p \in Procs : shorten_locked(p)
    \/ \E p \in Procs : shorten_commit(p)
    \/ \E p \in Procs : shorten_commit_locked(p)
    \/ \E p \in Procs : shorten_respond(p)
    \/ finalize_connection
    \/ \E p \in Procs, code \in ConcurrentCodes : redirect_url(p, code)
    \/ \E p \in Procs : redirect_fetch(p)
    \/ \E p \in Procs : redirect_respond(p)
    \/ \E p \in Procs : get_stats(p)
    \/ \E p \in Procs : stats_fetch(p)
    \/ \E p \in Procs : stats_respond(p)
    \/ \E p \in Procs : list_urls(p)
    \/ \E p \in Procs : list_fetch(p)
    \/ \E p \in Procs : list_respond(p)
    \/ \E p \in Procs : health_check(p)
    \/ Tick

Spec == InitConcurrent /\ [][Next]_vars

\* SpecSeq: a sequence of requests, one worker running them one after the
\* other, while the clock advances; no statement ever waits for a lock
NextSeq ==
    \/ \E data \in Bodies : shorten_reject(1, data)
    \/ \E data \in Bodies :
           /\ data = Body(UrlA) \/ Len(urls) < MaxRecords
           /\ shorten_begin(1, data)
    \/ shorten_check(1)
    \/ shorten_regenerate(1)
    \/ shorten_exhausted(1)
    \/ shorten_insert(1)
    \/ shorten_commit(1)
    \/ shorten_respond(1)
    \/ \E code \in Codes : redirect_url(1, code)
    \/ redirect_fetch(1)
    \/ redirect_respond(1)
    \/ get_stats(1)
    \/ stats_fetch(1)
    \/ stats_respond(1)
    \/ list_urls(1)
    \/ list_fetch(1)
    \/ list_respond(1)
    \/ health_check(1)
    \/ Tick

SpecSeq == Init /\ [][NextSeq]_vars

\* SpecList: one worker on a database file holding PriorStore
ListBodies == {Body(UrlA), Body(UrlB), Body(UrlC)}

InitList ==
    /\ urls = PriorStore
    /\ now = 0
    /\ Idle

NextList ==
    \/ \E data \in ListBodies : shorten_begin(1, data)
    \/ shorten_check(1)
    \/ shorten_regenerate(1)
    \/ shorten_exhausted(1)
    \/ shorten_insert(1)
    \/ shorten_commit(1)
    \/ shorten_respond(1)
    \/ list_urls(1)
    \/ list_fetch(1)
    \/ list_respond(1)
    \/ Tick

SpecList == InitList /\ [][NextList]_vars

(***************************************************************************)
(* Properties.                                                             *)
(***************************************************************************)
Answered(method, path) ==
    /\ resp.status # 0
    /\ resp.request.method = method
    /\ resp.request.path = path

ExhaustedError == "Failed to generate unique short code"
DuplicateError == "UNIQUE constraint failed: urls.short_code"

\* the rows of the store whose long_url is u
RecordsOf(store, u) == {i \in 1..Len(store) : store[i].long_url = u}

IsHttpUrl(s) == startswith(s, "http://") \/ startswith(s, "https://")

\* C1: in every reachable state, under any interleaving of the existence
\* checks and inserts of concurrent POST /shorten requests, no two records
\* of the Store have the same short_code.
C1_UniqueShortCodes ==
    \A i, j \in 1..Len(urls) :
        i # j => urls[i].short_code # urls[j].short_code

\* a request lost the race for its code: its INSERT was rejected
C1_Witness ==
    /\ Answered("POST", "/shorten")
    /\ resp.status = 500
    /\ resp.body.error = DuplicateError
    /\ Len(urls) >= 2

\* C2: no step mutates or deletes a record, and every GET /c answered
\* after a 201 response has handed out code c for URL u, whatever requests
\* came in between, is answered 302 with location u.
C2_IssuedCodeRedirects ==
    [][ /\ Len(urls') >= Len(urls)
        /\ \A i \in 1..Len(urls) : urls'[i] = urls[i]
        /\ \A n \in 1..Len(issued) :
             Answered("GET", "/" \o issued[n].short_code)' =>
               /\ resp'.status = 302
               /\ resp'.body.location = issued[n].long_url ]_vars

\* GET /115ec9 redirects to UrlB although UrlA, which has the same code among
\* its candidates, was shortened twice since
C2_Witness ==
    /\ Answered("GET", "/115ec9")
    /\ resp.status = 302
    /\ resp.body.location = UrlB
    /\ Cardinality(RecordsOf(urls, UrlA)) >= 2

\* C3: a POST /shorten of a valid URL u that follows a POST /shorten of u
\* answered 201 is answered 201 too (with another code): it never ends in
\* the exhaustion failure.
C3_SameUrlTwice ==
    \A p \in Procs :
        ~ /\ pc[p] = "exhausted"
          /\ Len(issued) > 0
          /\ issued[Len(issued)].long_url = long_url[p]

\* C4: a POST /shorten whose body has no url field, or whose url value is
\* not a string beginning with "http://" or "https://", is answered 400 and
\* leaves the Store unchanged; every stored long_url begins with "http://"
\* or "https://".
C4_InvalidBodyRejected ==
    [][ /\ \A p \in Procs, data \in Bodies :
             /\ \/ Falsy(data)
                \/ "url" \notin DOMAIN data.items
                \/ "str" \notin DOMAIN data.items.url
                \/ ~IsHttpUrl(data.items.url.str)
             /\ shorten_reject(p, data) \/ shorten_begin(p, data)
             => /\ resp'.status = 400
                /\ urls' = urls
                /\ pc'[p] = "idle"
        /\ \A i \in 1..Len(urls') : IsHttpUrl(urls'[i].long_url) ]_vars

\* a request of worker p has made its max_attempts existence checks and
\* each found its candidate in the Store
AllCollide(p) ==
    /\ pc[p] \in {"check", "fetch", "insert", "exhausted"}
    /\ Len(checked[p]) = max_attempts
    /\ \A n \in 1..Len(checked[p]) : exists(urls, checked[p][n])

\* C5: a POST /shorten request all of whose max_attempts existence checks
\* found their candidate in the Store inserts nothing and ends with status
\* 500 and the allocation-exhausted error.
C5_AllCollideFails ==
    [][ \A p \in Procs :
          AllCollide(p) =>
            /\ pc'[p] \in {"fetch", "exhausted", "idle"}
            /\ pending' = pending
            /\ pc'[p] = "idle" =>
                 /\ resp'.status = 500
                 /\ resp'.body.error = ExhaustedError
                 /\ urls' = urls
                 /\ issued' = issued ]_vars

\* a request for UrlA was answered with the exhaustion failure, one of its
\* candidates being held by a record of UrlB
C5_Witness ==
    /\ Answered("POST", "/shorten")
    /\ resp.status = 500
    /\ resp.body.error = ExhaustedError
    /\ resp.request.data = Body(UrlA)
    /\ exists(urls, "115ec9") /\ lookup(urls, "115ec9") = UrlB

\* C6: GET /stats reports the number of records of the Store, which is the
\* number of 201 responses sent so far, and a step that answers 400, 404,
\* 500 or any GET request leaves that number unchanged.
C6_StatsCountsCreated ==
    [][ /\ Answered("GET", "/stats")' =>
             /\ resp'.status = 200
             /\ resp'.body.total_shortened_urls = Len(urls')
             /\ resp'.body.total_shortened_urls = Len(issued')
        /\ /\ resp'.status # 0
           /\ resp'.status \in {400, 404, 500} \/ resp'.request.method = "GET"
           => /\ Len(urls') = Len(urls)
              /\ Len(issued') = Len(issued) ]_vars

\* GET /stats answered 2 after UrlA was shortened twice
C6_Witness ==
    /\ Answered("GET", "/stats")
    /\ resp.body.total_shortened_urls = 2
    /\ Cardinality(RecordsOf(urls, UrlA)) = 2

\* C7: GET /list returns min(10, number of records) records: the most
\* recently created ones, newest first, also among records with the same
\* created_at.
C7_ListNewestFirst ==
    Answered("GET", "/list") =>
        LET n == Len(urls)
            m == IF n < 10 THEN n ELSE 10
            L == resp.body.recent_urls
        IN  /\ Len(L) = m
            /\ resp.body.total_count = m
            /\ \A i \in 1..m :
                 /\ L[i].short_code = urls[n + 1 - i].short_code
                 /\ L[i].long_url = urls[n + 1 - i].long_url
                 /\ L[i].created_at = urls[n + 1 - i].created_at

\* C8: a request whose INSERT is rejected by the uniqueness constraint goes
\* on with its next candidate instead of answering with a failure.
C8_DuplicateInsertRetries ==
    [][ \A p \in Procs :
          /\ pc[p] = "insert"
          /\ pc'[p] # "insert"
          /\ exists(urls, short_code[p])
          => /\ pc'[p] = "check"
             /\ resp' = NoResp ]_vars

\* C9: a POST /shorten run without interleaving makes at most max_attempts
\* existence checks, checks every candidate it generates, inserts the first
\* generated candidate that is absent from the Store, and gives up only
\* when every candidate it generated is in the Store.
C9_AllocatorContract ==
    \A p \in Procs :
        /\ Len(checked[p]) <= max_attempts
        /\ pc[p] = "insert" =>
             /\ checked[p] = generated[p]
             /\ short_code[p] = generated[p][Len(generated[p])]
             /\ ~exists(urls, short_code[p])
             /\ \A n \in 1..(Len(generated[p]) - 1) :
                  exists(urls, generated[p][n])
        /\ pc[p] = "exhausted" =>
             /\ checked[p] = generated[p]
             /\ \A n \in 1..Len(generated[p]) : exists(urls, generated[p][n])

\* the five codes a URL can be stored under: the first `length` characters
\* of the digests of u, u0, u1, u2, u3
FixedCandidates(u) ==
    {SubSeq(hexdigest(u), 1, 6)} \cup
    {SubSeq(hexdigest(u \o d), 1, 6) : d \in {"0", "1", "2", "3"}}

\* C10: every record of URL u has one of u's five fixed candidates as its
\* code, so the Store never holds more than 5 records with the same
\* long_url; a POST /shorten of a URL that has 5 records never gets its
\* INSERT accepted and is answered 500.
C10_FiveCodesPerUrl ==
    [][ /\ \A i \in 1..Len(urls') :
             /\ urls'[i].short_code \in FixedCandidates(urls'[i].long_url)
             /\ Cardinality(RecordsOf(urls', urls'[i].long_url)) <= 5
        /\ \A p \in Procs :
             /\ pc[p] \in {"check", "fetch", "insert", "exhausted"}
             /\ Cardinality(RecordsOf(urls, long_url[p])) = 5
             => /\ pc'[p] \in {"check", "fetch", "insert", "exhausted",
                              "idle"}
                /\ pc'[p] = "idle" => resp'.status = 500 ]_vars

\* UrlA has its 5 records and a request that raced for the last one was
\* answered 500
C10_Witness ==
    /\ Cardinality(RecordsOf(urls, UrlA)) = 5
    /\ Answered("POST", "/shorten")
    /\ resp.status = 500
    /\ resp.body.error = DuplicateError

====
